---- MODULE Spec2Model ----
(***************************************************************************)
(* Session / token lifecycle of Adjunct Graph (jamesdruhan/ms-adjunct).    *)
(*                                                                         *)
(* The persisted store holds three independent keys (homeAccountId, roles, *)
(* Login_Required).  Every public call (login, logout, getToken, get,      *)
(* batch) is a flow that runs synchronously from one suspension point      *)
(* (an awaited provider / callback / fetch promise) to the next; flows of  *)
(* independent calls interleave at those points.                            *)
(***************************************************************************)
EXTENDS Integers, Sequences, FiniteSets, TLC

(* ---------------------------------------------------------------- bounds *)
MaxCalls == 2
MaxLen   == 3

(* ------------------------------------------------------------- constants *)
BatchLimit == 20

NULL      == "null"
Accounts  == {"A", "B"}
NoRoles   == "undefined"
RoleClaims == {NoRoles, "r1"}
\* two call slots: at most two public calls are in flight at a time
Flows     == {1, 2}

\* utility/Constants: TokenType, SignInMethod, GraphErrorCode
APP      == "app"
GRAPH    == "graph"
REDIRECT == "redirect"
POPUP    == "popup"
MISSING_PERMISSION  == "invalid_grant"
EXPIRED_TOKEN       == "interaction_required"
\* GraphErrorCode has no LOGIN_REQUIRED member: the property read yields undefined
LOGIN_REQUIRED      == "undefined"
REQUEST_DENIED      == "Authorization_RequestDenied"
ACCESS_DENIED       == "accessDenied"
ERROR_ACCESS_DENIED == "ErrorAccessDenied"

\* error/AuthenticationError, error/GraphError: the code of each taxonomy entry
signInErrorUnknown               == "auth_signIn_error_unknown"
getTokenMissingPermissionScope   == "auth_getToken_missing_permission_scope"
getTokenAuthenticationRequired   == "auth_getToken_authentication_required"
getTokenNotLoggedIn              == "auth_getToken_not_logged_in"
processLoginMultipleAccountError == "auth_multiple_account_error"
processLoginNoAccounts           == "auth_no_accounts"
getRequestDenied                 == "graph_request_denied"
getAccessDenied                  == "graph_access_denied"
getUnknownError                  == "graph_unknown_error"
batchRequestLimit                == "graph_batch_request_limit"

\* Errors the provider, the callback or the transport can raise.
\* InteractionRequiredAuthError instances are named by their errorCode; any
\* other exception class is "BrowserAuthError".
IRCodes      == {MISSING_PERMISSION, EXPIRED_TOKEN, "login_required"}
SilentErrors == IRCodes \cup {"BrowserAuthError"}
IsInteractionRequiredAuthError(e) == e \in IRCodes
errorCode(e) == e

VARIABLES
    store,          \* browser storage: the three Adjunct keys
    msal,           \* the provider (msalClient): cached accounts, active account
    flows,          \* one record per call slot: position, continuations, outcome
    signInMethod,   \* context.signInMethod, fixed at construction
    signInMultipleAccountsCallBack,
                    \* context.signInMultipleAccountsCallBack: the application's
                    \* function ("app") or the default SettingManager installs
    graphPermissions,
                    \* context.graphPermissions: whether they include one of the
                    \* user-profile scopes ("profile") or not ("other")
    redirect,       \* redirect navigation: none / triggered / returned
    calls,          \* number of public calls started so far
    last,           \* the settlement the latest step delivered to a caller, if any
    graphVersion,   \* context.graphVersion
    endPoint,       \* an endpoint string handed to Graph.get, as its characters
    urlPlain,       \* the URL get(endPoint) requested
    urlSlash        \* the URL get("/" + endPoint) requested

configVars == <<signInMethod, signInMultipleAccountsCallBack, graphPermissions>>
authVars  == <<store, msal, flows, signInMethod, signInMultipleAccountsCallBack,
               graphPermissions, redirect, calls, last>>
graphVars == <<graphVersion, endPoint, urlPlain, urlSlash>>
vars      == <<store, msal, flows, signInMethod, signInMultipleAccountsCallBack,
               graphPermissions, redirect, calls, last,
               graphVersion, endPoint, urlPlain, urlSlash>>


(* ------------------------------------------------ SettingManager.ts *)
\* the lists getAllAccounts() can return for a set of cached accounts
Orders(S) ==
    {s \in [1..Cardinality(S) -> S] : \A i, j \in 1..Cardinality(S) : s[i] = s[j] => i = j}

\* the default of signInMultipleAccountsCallBack: resolve( accountChoices[0] )
defaultCallBack(accountChoices) == accountChoices[1]

\* what an application's selection function can throw or reject with
CallBackErrors == {"CallBackError"}

(* ------------------------------------------------------------ values *)
NoValue   == [kind |-> "none",      account |-> NULL, roles |-> NoRoles, src |-> "none"]
Void      == [kind |-> "void",      account |-> NULL, roles |-> NoRoles, src |-> "none"]
Undefined == [kind |-> "undefined", account |-> NULL, roles |-> NoRoles, src |-> "none"]
Null      == [kind |-> "null",      account |-> NULL, roles |-> NoRoles, src |-> "none"]
EmptyObj  == [kind |-> "empty",     account |-> NULL, roles |-> NoRoles, src |-> "none"]
Json      == [kind |-> "json",      account |-> NULL, roles |-> NoRoles, src |-> "none"]
\* an AuthenticationResult: its account, its idTokenClaims.roles, and which
\* provider call produced it
AuthResult(a, r, from) == [kind |-> "token", account |-> a, roles |-> r, src |-> from]

EmptyStore == [acct |-> NULL, roles |-> NULL, lr |-> NULL]

IdleFlow ==
    [pc |-> "idle", op |-> "none", conts |-> <<>>, tt |-> APP, force |-> FALSE,
     acct |-> NULL, n |-> 0, status |-> "none", value |-> NoValue, err |-> <<>>,
     cands |-> {}, sel |-> NULL, silent |-> "none", path |-> "none", nPopup |-> 0, nRedir |-> 0, nSilent |-> 0, nLogout |-> 0,
     nFetch |-> 0, nCb |-> 0, nGetToken |-> 0,
     bearer |-> "none", http |-> 0, code |-> "none", cbErr |-> "none",
     loginOut |-> "none", nBatch |-> 0]

\* the world a flow's synchronous segment reads and writes
World(f) == [store |-> store, msal |-> msal, fl |-> flows[f], redirect |-> redirect]

(* ------------------------------------------------- Authentication.ts *)
getAccountByHomeId(m, id) == IF id \in m.accounts THEN id ELSE NULL

\* mutant: the stored identifier is believed without asking the provider
getLoggedInAccount_trustsStored(w) == w.store.acct

getLoggedInAccount(w) ==
    IF w.store.acct # NULL THEN getAccountByHomeId(w.msal, w.store.acct) ELSE NULL

isUserLoggedIn == getLoggedInAccount([store |-> store, msal |-> msal]) # NULL

\* mutant: only the homeAccountId key is removed
clearStorage_idOnly(s) == [s EXCEPT !.acct = NULL]

\* mutant: the roles key is left behind
clearStorage_keepsRoles(s) == [s EXCEPT !.acct = NULL, !.lr = NULL]

clearStorage(s) == [s EXCEPT !.acct = NULL, !.roles = NULL, !.lr = NULL]

\* mutant: the homeAccountId is not stored
registerAccount_rolesOnly(s, res) ==
    [s EXCEPT !.roles = IF res.roles # NoRoles THEN res.roles ELSE @]

\* mutant: an identifier already persisted is not overwritten
registerAccount_keepsFirst(s, res) ==
    IF s.acct # NULL THEN s
    ELSE [s EXCEPT !.acct = res.account,
                   !.roles = IF res.roles # NoRoles THEN res.roles ELSE @]

registerAccount(s, res) ==
    [s EXCEPT !.acct  = res.account,
              !.roles = IF res.roles # NoRoles THEN res.roles ELSE @]

\* the scopes the provider call that produced token result v was made with:
\* the silent request's requestScope, or appPermissions for an interactive login
tokenScopes(fl, v) == IF v.src = "silent" THEN fl.tt ELSE APP

RECURSIVE Resolve(_, _), Reject(_, _), getToken(_, _, _), login(_), loginPopup(_)
RECURSIVE setUserProfile(_), afterProfileBatch(_, _)

\* the promise of the innermost pending call resolves with v
Resolve(w, v) ==
    IF w.fl.conts = <<>>
    THEN [w EXCEPT !.fl.pc = "done", !.fl.status = "resolved", !.fl.value = v]
    ELSE LET k  == Head(w.fl.conts)
             w1 == [w EXCEPT !.fl.conts = Tail(@)]
         IN  CASE k = "plr"   ->
                    \* processLoginResult after the confirming getToken
                    Resolve([w1 EXCEPT !.store = [registerAccount(@, v) EXCEPT !.lr = "no"]], v)
               [] k = "call"  ->
                    \* Graph.call: token attached, fetch issued
                    [w1 EXCEPT !.fl.pc = "awaitFetch", !.fl.nFetch = @ + 1,
                               !.fl.bearer = tokenScopes(w1.fl, v)]
               [] k = "batch" -> Resolve(w1, v)
               [] k = "signIn" ->
                    \* Appoint.signIn: login() resolved, the profile is fetched
                    setUserProfile([w1 EXCEPT !.fl.loginOut = "resolved"])
               [] k = "profile" -> afterProfileBatch(w1, v)

\* the promise of the innermost pending call rejects with e (outermost
\* wrapper first)
Reject(w, e) ==
    IF w.fl.conts = <<>>
    THEN [w EXCEPT !.fl.pc = "done", !.fl.status = "rejected", !.fl.err = e]
    ELSE LET k  == Head(w.fl.conts)
             w1 == [w EXCEPT !.fl.conts = Tail(@)]
         IN  CASE k = "plr"   -> Reject(w1, e)
               [] k = "call"  -> Reject(w1, <<getUnknownError>> \o e)
               [] k = "batch" -> Resolve(w1, Undefined)
               [] k = "signIn" -> Reject([w1 EXCEPT !.fl.loginOut = "rejected"], e)
               [] k = "profile" -> Reject(w1, e)

\* mutant: the stale record is wiped before the call is refused
getToken_clearsWhenNoAccount(w0, tokenType, forceLogin) ==
    LET w == [w0 EXCEPT !.fl.nGetToken = @ + 1] IN
    IF forceLogin /\ w.store.lr = "yes"
    THEN login(w)
    ELSE LET userAccount == getLoggedInAccount(w) IN
         IF userAccount # NULL
         THEN [w EXCEPT !.fl.pc = "awaitSilent", !.fl.acct = userAccount,
                        !.fl.tt = tokenType, !.fl.force = forceLogin,
                        !.fl.nSilent = @ + 1]
         ELSE Reject([w EXCEPT !.store = clearStorage(@)], <<getTokenNotLoggedIn>>)

\* mutant: the forced branch is missing, the flag is not looked at
getToken_noForcedBranch(w0, tokenType, forceLogin) ==
    LET w == [w0 EXCEPT !.fl.nGetToken = @ + 1]
        userAccount == getLoggedInAccount(w)
    IN  IF userAccount # NULL
        THEN [w EXCEPT !.fl.pc = "awaitSilent", !.fl.acct = userAccount,
                       !.fl.tt = tokenType, !.fl.force = forceLogin,
                       !.fl.nSilent = @ + 1]
        ELSE Reject(w, <<getTokenNotLoggedIn>>)

getToken(w0, tokenType, forceLogin) ==
    LET w == [w0 EXCEPT !.fl.nGetToken = @ + 1] IN
    IF forceLogin /\ w.store.lr = "yes"
    THEN login(w)
    ELSE LET userAccount == getLoggedInAccount(w) IN
         IF userAccount # NULL
         THEN [w EXCEPT !.fl.pc = "awaitSilent", !.fl.acct = userAccount,
                        !.fl.tt = tokenType, !.fl.force = forceLogin,
                        !.fl.nSilent = @ + 1]
         ELSE Reject(w, <<getTokenNotLoggedIn>>)

\* mutant: the popup is opened whether or not an account is trusted
loginPopup_alwaysPopup(w) ==
    [w EXCEPT !.store = clearStorage(@), !.fl.pc = "awaitPopup",
              !.fl.nPopup = @ + 1]

loginPopup(w) ==
    LET foundAccount == getLoggedInAccount(w) IN
    IF foundAccount = NULL \/ (foundAccount # NULL /\ w.store.lr = "yes")
    THEN [w EXCEPT !.store = clearStorage(@), !.fl.pc = "awaitPopup",
                   !.fl.nPopup = @ + 1]
    ELSE getToken(w, APP, TRUE)

login(w) ==
    IF signInMethod = REDIRECT
    THEN [w EXCEPT !.fl.pc = "awaitRedirect"]
    ELSE loginPopup(w)

\* mutant: the pessimistic write of the flag is missing
processLoginResult_noPessimisticFlag(w, authResult) ==
    IF authResult.account # NULL
    THEN Resolve([w EXCEPT !.store = [registerAccount(@, authResult) EXCEPT !.lr = "no"],
                           !.fl.path = "inline"], authResult)
    ELSE LET loggedInAccounts == w.msal.accounts IN
         IF Cardinality(loggedInAccounts) = 1
         THEN LET only == CHOOSE a \in loggedInAccounts : TRUE IN
              getToken([w EXCEPT !.msal.active = only, !.fl.path = "single",
                                 !.fl.conts = <<"plr">> \o @], APP, FALSE)
         ELSE IF Cardinality(loggedInAccounts) > 1
         THEN [w EXCEPT !.fl.pc = "awaitCallback", !.fl.cands = loggedInAccounts,
                        !.fl.path = "multi", !.fl.nCb = @ + 1]
         ELSE Reject([w EXCEPT !.fl.path = "zero"], <<processLoginNoAccounts>>)

\* mutant: the callback is asked as soon as the provider lists an account
processLoginResult_callbackForOne(w, authResult) ==
    LET w1 == [w EXCEPT !.store.lr = "yes"] IN
    IF authResult.account # NULL
    THEN Resolve([w1 EXCEPT !.store = [registerAccount(@, authResult) EXCEPT !.lr = "no"],
                            !.fl.path = "inline"], authResult)
    ELSE LET loggedInAccounts == w1.msal.accounts IN
         IF Cardinality(loggedInAccounts) >= 1
         THEN [w1 EXCEPT !.fl.pc = "awaitCallback", !.fl.cands = loggedInAccounts,
                         !.fl.path = "multi", !.fl.nCb = @ + 1]
         ELSE Reject([w1 EXCEPT !.fl.path = "zero"], <<processLoginNoAccounts>>)

processLoginResult(w, authResult) ==
    LET w1 == [w EXCEPT !.store.lr = "yes"] IN
    IF authResult.account # NULL
    THEN Resolve([w1 EXCEPT !.store = [registerAccount(@, authResult) EXCEPT !.lr = "no"],
                            !.fl.path = "inline"], authResult)
    ELSE LET loggedInAccounts == w1.msal.accounts IN
         IF Cardinality(loggedInAccounts) = 1
         THEN LET only == CHOOSE a \in loggedInAccounts : TRUE IN
              getToken([w1 EXCEPT !.msal.active = only, !.fl.path = "single",
                                  !.fl.conts = <<"plr">> \o @], APP, FALSE)
         ELSE IF Cardinality(loggedInAccounts) > 1
         THEN [w1 EXCEPT !.fl.pc = "awaitCallback", !.fl.cands = loggedInAccounts,
                         !.fl.path = "multi", !.fl.nCb = @ + 1]
         ELSE Reject([w1 EXCEPT !.fl.path = "zero"], <<processLoginNoAccounts>>)

\* processLoginResult resumed with the account the selection callback chose
\* mutant: the first candidate is adopted whatever the callback chose
afterCallback_firstAccount(w, selectedAccount) ==
    LET first == CHOOSE a \in w.fl.cands : TRUE IN
    getToken([w EXCEPT !.store.acct = first, !.store.lr = "no",
                       !.msal.active = first, !.fl.cands = {},
                       !.fl.sel = selectedAccount,
                       !.fl.conts = <<"plr">> \o @], APP, FALSE)

\* mutant: the chosen identifier is persisted without the flag
afterCallback_idOnly(w, selectedAccount) ==
    getToken([w EXCEPT !.store.acct = selectedAccount,
                       !.msal.active = selectedAccount, !.fl.cands = {},
                       !.fl.sel = selectedAccount,
                       !.fl.conts = <<"plr">> \o @], APP, FALSE)

afterCallback(w, selectedAccount) ==
    getToken([w EXCEPT !.store.acct = selectedAccount, !.store.lr = "no",
                       !.msal.active = selectedAccount, !.fl.cands = {},
                       !.fl.sel = selectedAccount,
                       !.fl.conts = <<"plr">> \o @], APP, FALSE)

\* processLoginResult resumed after the selection callback threw or rejected
\* with e: the outer catch replaces e
\* mutant: the callback's own error reaches the caller
afterCallbackFailure_propagates(w, e) ==
    Reject([w EXCEPT !.fl.cands = {}, !.fl.cbErr = e], <<e>>)

afterCallbackFailure(w, e) ==
    Reject([w EXCEPT !.fl.cands = {}, !.fl.cbErr = e],
           <<processLoginMultipleAccountError>>)

\* loginRedirect resumed after handleRedirectPromise() answered null
afterNoRedirectResult(w) ==
    LET foundAccount == getLoggedInAccount(w) IN
    IF foundAccount = NULL \/ (foundAccount # NULL /\ w.store.lr = "yes")
    THEN Resolve([w EXCEPT !.store = clearStorage(@), !.redirect = "triggered",
                           !.fl.nRedir = @ + 1], EmptyObj)
    ELSE getToken(w, APP, TRUE)

\* loginRedirect resumed with what handleRedirectPromise() resolved with
\* mutant: the pending result is not looked at
afterHandleRedirectPromise_ignoresResult(w, redirectAuthResult) ==
    afterNoRedirectResult(w)

afterHandleRedirectPromise(w, redirectAuthResult) ==
    IF redirectAuthResult # Null
    THEN processLoginResult(w, redirectAuthResult)
    ELSE afterNoRedirectResult(w)

\* getToken resumed after acquireTokenSilent resolved
\* mutant: the token is handed back without the flag being written
afterSilentSuccess_noFlag(w, tokenResponse) ==
    Resolve([w EXCEPT !.fl.silent = "ok"], tokenResponse)

afterSilentSuccess(w, tokenResponse) ==
    Resolve([w EXCEPT !.store.lr = "no", !.fl.silent = "ok"], tokenResponse)

\* getToken resumed after acquireTokenSilent rejected with e
\* mutant: the flag is not flipped to yes on the interaction-required error
afterSilentFailure_noFlag(w0, e) ==
    LET w == [w0 EXCEPT !.fl.silent = e] IN
    IF IsInteractionRequiredAuthError(e)
    THEN IF errorCode(e) = MISSING_PERMISSION
         THEN Reject(w, <<getTokenMissingPermissionScope>>)
         ELSE IF errorCode(e) = EXPIRED_TOKEN \/ errorCode(e) = LOGIN_REQUIRED
         THEN IF w.fl.force THEN login(w)
              ELSE Reject(w, <<getTokenAuthenticationRequired>>)
         ELSE Reject(w, <<e>>)
    ELSE Reject(w, <<e>>)

\* mutant: forceLogin is not honoured, the caller is always left to prompt
afterSilentFailure_ignoresForce(w0, e) ==
    LET w == [w0 EXCEPT !.fl.silent = e] IN
    IF IsInteractionRequiredAuthError(e)
    THEN IF errorCode(e) = MISSING_PERMISSION
         THEN Reject(w, <<getTokenMissingPermissionScope>>)
         ELSE IF errorCode(e) = EXPIRED_TOKEN \/ errorCode(e) = LOGIN_REQUIRED
         THEN Reject([w EXCEPT !.store.lr = "yes"], <<getTokenAuthenticationRequired>>)
         ELSE Reject(w, <<e>>)
    ELSE Reject(w, <<e>>)

\* mutant: the login_required code is compared with the string, as if
\* GraphErrorCode had the member
afterSilentFailure_loginRequiredMember(w0, e) ==
    LET w == [w0 EXCEPT !.fl.silent = e] IN
    IF IsInteractionRequiredAuthError(e)
    THEN IF errorCode(e) = MISSING_PERMISSION
         THEN Reject(w, <<getTokenMissingPermissionScope>>)
         ELSE IF errorCode(e) = EXPIRED_TOKEN \/ errorCode(e) = "login_required"
         THEN LET w1 == [w EXCEPT !.store.lr = "yes"] IN
              IF w.fl.force THEN login(w1)
              ELSE Reject(w1, <<getTokenAuthenticationRequired>>)
         ELSE Reject(w, <<e>>)
    ELSE Reject(w, <<e>>)

\* mutant: the missing-permission error is handled like an expired token
afterSilentFailure_permissionAsExpiry(w0, e) ==
    LET w == [w0 EXCEPT !.fl.silent = e] IN
    IF IsInteractionRequiredAuthError(e)
    THEN IF errorCode(e) = MISSING_PERMISSION \/ errorCode(e) = EXPIRED_TOKEN
         THEN LET w1 == [w EXCEPT !.store.lr = "yes"] IN
              IF w.fl.force THEN login(w1)
              ELSE Reject(w1, <<getTokenAuthenticationRequired>>)
         ELSE Reject(w, <<e>>)
    ELSE Reject(w, <<e>>)

afterSilentFailure(w0, e) ==
    LET w == [w0 EXCEPT !.fl.silent = e] IN
    IF IsInteractionRequiredAuthError(e)
    THEN IF errorCode(e) = MISSING_PERMISSION
         THEN Reject(w, <<getTokenMissingPermissionScope>>)
         ELSE IF errorCode(e) = EXPIRED_TOKEN \/ errorCode(e) = LOGIN_REQUIRED
         THEN LET w1 == [w EXCEPT !.store.lr = "yes"] IN
              IF w.fl.force THEN login(w1)
              ELSE Reject(w1, <<getTokenAuthenticationRequired>>)
         ELSE Reject(w, <<e>>)
    ELSE Reject(w, <<e>>)

\* mutant: the provider logout is called without checking for an account
logout_alwaysProvider(w) ==
    LET foundAccount == getLoggedInAccount(w)
        w1 == [w EXCEPT !.store = clearStorage(@)]
    IN  [w1 EXCEPT !.fl.pc = "awaitLogout", !.fl.acct = foundAccount,
                   !.fl.nLogout = @ + 1]

logout(w) ==
    LET foundAccount == getLoggedInAccount(w)
        w1 == [w EXCEPT !.store = clearStorage(@)]
    IN  IF foundAccount = NULL
        THEN Resolve(w1, Void)
        ELSE [w1 EXCEPT !.fl.pc = "awaitLogout", !.fl.acct = foundAccount,
                        !.fl.nLogout = @ + 1]

(* ------------------------------------------------------------ Graph.ts *)
GRAPH_API_BASE == "https://graph.microsoft.com"

\* a URL is the sequence of its pieces: the base, the version segment, and
\* single characters
\* mutant: a separator is inserted whatever the endpoint starts with
getValidEndPoint_alwaysSlash(e) ==
    <<GRAPH_API_BASE, "/", graphVersion, "/">> \o e

getValidEndPoint(e) ==
    IF (IF e = <<>> THEN "" ELSE Head(e)) # "/"
    THEN <<GRAPH_API_BASE, "/", graphVersion, "/">> \o e
    ELSE <<GRAPH_API_BASE, "/", graphVersion>> \o e

call(w, forceLogin) ==
    getToken([w EXCEPT !.fl.conts = <<"call">> \o @], GRAPH, forceLogin)

get(w, forceLogin) == call(w, forceLogin)

\* mutant: the size check is off by one
batch_offByOne(w, nRequests, forceLogin) ==
    IF nRequests >= BatchLimit
    THEN Reject(w, <<batchRequestLimit>>)
    ELSE call([w EXCEPT !.fl.conts = <<"batch">> \o @], forceLogin)

batch(w, nRequests, forceLogin) ==
    IF nRequests > BatchLimit
    THEN Reject(w, <<batchRequestLimit>>)
    ELSE call([w EXCEPT !.fl.conts = <<"batch">> \o @], forceLogin)

(* ---------------------------------------------------------- Appoint.ts *)
\* the two requests of the profile batch
ProfileRequests == 2

\* setUserProfile resumed with what graph.batch resolved with:
\* batchResult.responses.forEach throws a TypeError on undefined
\* mutant: the batch result is not looked at
afterProfileBatch_ignoresResult(w, batchResult) == Resolve(w, Void)

afterProfileBatch(w, batchResult) ==
    IF batchResult.kind = "undefined"
    THEN Reject(w, <<"TypeError">>)
    ELSE Resolve(w, Void)

setUserProfile(w) ==
    IF graphPermissions = "profile"
    THEN batch([w EXCEPT !.fl.conts = <<"profile">> \o @, !.fl.nBatch = @ + 1,
                         !.fl.n = ProfileRequests],
               ProfileRequests, FALSE)
    ELSE Resolve(w, Void)

signIn(w) == login([w EXCEPT !.fl.conts = <<"signIn">> \o @])

signOut(w) == logout(w)

appointNotLoggedIn == "appoint_not_logged_in"

\* Appoint.getToken: the facade in front of Authentication.getToken
\* mutant: only a flag of yes keeps the call from the state machine
Appoint_getToken_absentPasses(w, tokenType, forceLogin) ==
    IF w.store.lr # "yes"
    THEN getToken(w, tokenType, forceLogin)
    ELSE Reject(w, <<appointNotLoggedIn>>)

Appoint_getToken(w, tokenType, forceLogin) ==
    IF w.store.lr = "no"
    THEN getToken(w, tokenType, forceLogin)
    ELSE Reject(w, <<appointNotLoggedIn>>)

\* Graph.call resumed with the HTTP status and the body's error.code
afterFetch(w0, status, code) ==
    LET w == [w0 EXCEPT !.fl.http = status, !.fl.code = code] IN
    IF status = 200
    THEN Resolve(w, Json)
    ELSE IF code = REQUEST_DENIED      THEN Reject(w, <<getRequestDenied>>)
    ELSE IF code = ACCESS_DENIED       THEN Reject(w, <<getAccessDenied>>)
    ELSE IF code = ERROR_ACCESS_DENIED THEN Reject(w, <<getRequestDenied>>)
    ELSE Reject(w, <<getUnknownError, "body">>)

\* fetch() or Response.json() threw
afterFetchThrows(w) ==
    Reject([w EXCEPT !.fl.code = "threw"], <<getUnknownError, "TypeError">>)

(* ------------------------------------------------------------- actions *)
\* no promise settled in this step
NoEvent == [f |-> 0, fl |-> IdleFlow, pre |-> EmptyStore]

\* A step of flow f ends in world w.  When the call's promise settled, the
\* caller observes the outcome (with the store as it was before the step)
\* and the slot is free again.
Apply(f, w) ==
    /\ store'    = w.store
    /\ msal'     = w.msal
    /\ redirect' = w.redirect
    /\ flows'    = [flows EXCEPT ![f] = IF w.fl.pc = "done" THEN IdleFlow ELSE w.fl]
    /\ last'     = IF w.fl.pc = "done"
                   THEN [f |-> f, fl |-> w.fl, pre |-> store]
                   ELSE NoEvent
    /\ UNCHANGED <<configVars, graphVars>>

\* a public call may start in a free slot; op names the entry point
\* (the lowest free slot: slots are interchangeable)
CanStart(f) ==
    /\ flows[f].pc = "idle"
    /\ calls < MaxCalls
    /\ \A g \in Flows : g < f => flows[g].pc # "idle"

Fresh(f, op) == [World(f) EXCEPT !.fl = [IdleFlow EXCEPT !.op = op]]

StartLogin(f) ==
    /\ CanStart(f)
    /\ calls' = calls + 1
    /\ Apply(f, login(Fresh(f, "login")))

StartLogout(f) ==
    /\ CanStart(f)
    /\ calls' = calls + 1
    /\ Apply(f, logout(Fresh(f, "logout")))

StartGetToken(f) ==
    /\ CanStart(f)
    /\ calls' = calls + 1
    /\ \E tokenType \in {APP, GRAPH}, forceLogin \in BOOLEAN :
          Apply(f, getToken([Fresh(f, "getToken") EXCEPT !.fl.force = forceLogin,
                                                         !.fl.tt = tokenType],
                            tokenType, forceLogin))

StartGet(f) ==
    /\ CanStart(f)
    /\ calls' = calls + 1
    /\ \E forceLogin \in BOOLEAN :
          Apply(f, get([Fresh(f, "get") EXCEPT !.fl.force = forceLogin], forceLogin))

StartBatch(f) ==
    /\ CanStart(f)
    /\ calls' = calls + 1
    /\ \E nRequests \in {BatchLimit, BatchLimit + 1}, forceLogin \in BOOLEAN :
          Apply(f, batch([Fresh(f, "batch") EXCEPT !.fl.force = forceLogin,
                                                   !.fl.n = nRequests],
                         nRequests, forceLogin))

StartSignIn(f) ==
    /\ CanStart(f)
    /\ calls' = calls + 1
    /\ Apply(f, signIn(Fresh(f, "signIn")))

StartSignOut(f) ==
    /\ CanStart(f)
    /\ calls' = calls + 1
    /\ Apply(f, signOut(Fresh(f, "signOut")))

StartAppointGetToken(f) ==
    /\ CanStart(f)
    /\ calls' = calls + 1
    /\ \E tokenType \in {APP, GRAPH}, forceLogin \in BOOLEAN :
          Apply(f, Appoint_getToken(
                     [Fresh(f, "Appoint.getToken") EXCEPT !.fl.force = forceLogin,
                                                          !.fl.tt = tokenType],
                     tokenType, forceLogin))

\* msalClient.loginPopup settles
PopupResolves(f) ==
    /\ flows[f].pc = "awaitPopup"
    /\ UNCHANGED calls
    /\ \E r \in RoleClaims :
         \/ \E a \in Accounts :
               Apply(f, processLoginResult(
                          [World(f) EXCEPT !.msal.accounts = @ \cup {a}],
                          AuthResult(a, r, POPUP)))
         \/ \E cached \in SUBSET Accounts :
               Apply(f, processLoginResult(
                          [World(f) EXCEPT !.msal.accounts = @ \cup cached],
                          AuthResult(NULL, r, POPUP)))

PopupRejects(f) ==
    /\ flows[f].pc = "awaitPopup"
    /\ UNCHANGED calls
    /\ Apply(f, Reject(World(f), <<signInErrorUnknown, "BrowserAuthError">>))

\* msalClient.handleRedirectPromise settles
RedirectPromiseResolves(f) ==
    /\ flows[f].pc = "awaitRedirect"
    /\ UNCHANGED calls
    /\ IF redirect = "returned"
       THEN \E r \in RoleClaims :
              \/ \E a \in Accounts :
                    Apply(f, afterHandleRedirectPromise(
                               [World(f) EXCEPT !.msal.accounts = @ \cup {a},
                                                !.redirect = "none"],
                               AuthResult(a, r, REDIRECT)))
              \/ \E cached \in SUBSET Accounts :
                    Apply(f, afterHandleRedirectPromise(
                               [World(f) EXCEPT !.msal.accounts = @ \cup cached,
                                                !.redirect = "none"],
                               AuthResult(NULL, r, REDIRECT)))
       ELSE Apply(f, afterHandleRedirectPromise(World(f), Null))

RedirectPromiseRejects(f) ==
    /\ flows[f].pc = "awaitRedirect"
    /\ redirect = "returned"
    /\ UNCHANGED calls
    /\ Apply(f, Reject([World(f) EXCEPT !.redirect = "none"],
                       <<signInErrorUnknown, "BrowserAuthError">>))

\* the page navigates to the identity provider and comes back: every
\* in-flight flow of the old page is gone, the persisted store survives
PageReload ==
    /\ redirect = "triggered"
    /\ redirect' = "returned"
    /\ flows' = [f \in Flows |-> IdleFlow]
    /\ last' = NoEvent
    /\ UNCHANGED <<store, msal, configVars, calls, graphVars>>

\* context.signInMultipleAccountsCallBack settles: the application's
\* function answers any of the candidates, the default the first of the
\* list getAllAccounts() returned (in the provider's order)
CallbackResolves(f) ==
    /\ flows[f].pc = "awaitCallback"
    /\ UNCHANGED calls
    /\ IF signInMultipleAccountsCallBack = "app"
       THEN \E selectedAccount \in flows[f].cands :
               Apply(f, afterCallback(World(f), selectedAccount))
       ELSE \E accountChoices \in Orders(flows[f].cands) :
               Apply(f, afterCallback(World(f), defaultCallBack(accountChoices)))

\* the application's function throws or rejects (the default never does)
CallbackRejects(f) ==
    /\ flows[f].pc = "awaitCallback"
    /\ signInMultipleAccountsCallBack = "app"
    /\ UNCHANGED calls
    /\ \E e \in CallBackErrors : Apply(f, afterCallbackFailure(World(f), e))

\* msalClient.acquireTokenSilent settles
SilentResolves(f) ==
    /\ flows[f].pc = "awaitSilent"
    /\ UNCHANGED calls
    /\ \E r \in RoleClaims :
          Apply(f, afterSilentSuccess(World(f), AuthResult(flows[f].acct, r, "silent")))

SilentRejects(f) ==
    /\ flows[f].pc = "awaitSilent"
    /\ UNCHANGED calls
    /\ \E e \in SilentErrors : Apply(f, afterSilentFailure(World(f), e))

\* msalClient.logoutPopup / logoutRedirect settles
LogoutResolves(f) ==
    /\ flows[f].pc = "awaitLogout"
    /\ UNCHANGED calls
    /\ Apply(f, Resolve([World(f) EXCEPT
                            !.msal.accounts = @ \ {flows[f].acct},
                            !.msal.active   = IF @ = flows[f].acct THEN NULL ELSE @],
                        Void))

LogoutRejects(f) ==
    /\ flows[f].pc = "awaitLogout"
    /\ UNCHANGED calls
    /\ Apply(f, Reject(World(f), <<"BrowserAuthError">>))

\* fetch settles
FetchResponds(f) ==
    /\ flows[f].pc = "awaitFetch"
    /\ UNCHANGED calls
    /\ \/ Apply(f, afterFetch(World(f), 200, "absent"))
       \/ \E code \in {REQUEST_DENIED, ACCESS_DENIED, ERROR_ACCESS_DENIED, "other", "absent"} :
             Apply(f, afterFetch(World(f), 403, code))

FetchThrows(f) ==
    /\ flows[f].pc = "awaitFetch"
    /\ UNCHANGED calls
    /\ Apply(f, afterFetchThrows(World(f)))

\* the provider's cache is emptied behind the application's back (browser
\* data cleared, cache in a shorter-lived storage than the Adjunct keys):
\* getAccountByHomeId answers null from now on
ProviderCacheCleared ==
    /\ msal.accounts # {}
    /\ msal' = [msal EXCEPT !.accounts = {}, !.active = NULL]
    /\ last' = NoEvent
    /\ UNCHANGED <<store, flows, configVars, redirect, calls, graphVars>>

Init ==
    /\ store = EmptyStore
    /\ msal = [accounts |-> {}, active |-> NULL]
    /\ flows = [f \in Flows |-> IdleFlow]
    /\ signInMethod \in {POPUP, REDIRECT}
    /\ signInMultipleAccountsCallBack = "app"
    /\ graphPermissions = "profile"
    /\ redirect = "none"
    /\ calls = 0
    /\ last = NoEvent
    /\ graphVersion = "v1.0"
    /\ endPoint = <<>>
    /\ urlPlain = <<>>
    /\ urlSlash = <<>>

Next ==
    \/ \E f \in Flows : StartLogin(f)
    \/ \E f \in Flows : StartLogout(f)
    \/ \E f \in Flows : StartGetToken(f)
    \/ \E f \in Flows : StartGet(f)
    \/ \E f \in Flows : StartBatch(f)
    \/ \E f \in Flows : PopupResolves(f)
    \/ \E f \in Flows : PopupRejects(f)
    \/ \E f \in Flows : RedirectPromiseResolves(f)
    \/ \E f \in Flows : RedirectPromiseRejects(f)
    \/ PageReload
    \/ \E f \in Flows : CallbackResolves(f)
    \/ \E f \in Flows : CallbackRejects(f)
    \/ \E f \in Flows : SilentResolves(f)
    \/ \E f \in Flows : SilentRejects(f)
    \/ \E f \in Flows : LogoutResolves(f)
    \/ \E f \in Flows : LogoutRejects(f)
    \/ \E f \in Flows : FetchResponds(f)
    \/ \E f \in Flows : FetchThrows(f)
    \/ ProviderCacheCleared

Spec == Init /\ [][Next]_vars

(* ------------------------------------- endpoint normalisation (Graph.get) *)
Chars == {"/", "m", "e"}

RECURSIVE Strings(_)
Strings(n) ==
    IF n = 0 THEN {<<>>}
    ELSE Strings(n - 1) \cup {<<c>> \o t : c \in Chars, t \in {u \in Strings(n - 1) : Len(u) = n - 1}}

InitEndPoint ==
    /\ store = EmptyStore
    /\ msal = [accounts |-> {}, active |-> NULL]
    /\ flows = [f \in Flows |-> IdleFlow]
    /\ signInMethod = POPUP
    /\ signInMultipleAccountsCallBack = "app"
    /\ graphPermissions = "profile"
    /\ redirect = "none"
    /\ calls = 0
    /\ last = NoEvent
    /\ graphVersion \in {"v1.0", "beta"}
    /\ endPoint \in Strings(MaxLen)
    /\ urlPlain = <<>>
    /\ urlSlash = <<>>

\* get(endPoint) builds the URL of its request
GetPlain ==
    /\ urlPlain = <<>>
    /\ urlPlain' = getValidEndPoint(endPoint)
    /\ UNCHANGED <<authVars, graphVersion, endPoint, urlSlash>>

\* get("/" + endPoint) builds the URL of its request
GetSlashed ==
    /\ urlSlash = <<>>
    /\ urlSlash' = getValidEndPoint(<<"/">> \o endPoint)
    /\ UNCHANGED <<authVars, graphVersion, endPoint, urlPlain>>

NextEndPoint == GetPlain \/ GetSlashed

SpecEndPoint == InitEndPoint /\ [][NextEndPoint]_vars

(* --------------------- no selection callback configured (the default) *)
InitDefaultCallBack ==
    /\ store = EmptyStore
    /\ msal = [accounts |-> {}, active |-> NULL]
    /\ flows = [f \in Flows |-> IdleFlow]
    /\ signInMethod \in {POPUP, REDIRECT}
    /\ signInMultipleAccountsCallBack = "default"
    /\ graphPermissions = "profile"
    /\ redirect = "none"
    /\ calls = 0
    /\ last = NoEvent
    /\ graphVersion = "v1.0"
    /\ endPoint = <<>>
    /\ urlPlain = <<>>
    /\ urlSlash = <<>>

\* the Authentication calls and the provider's answers; the default
\* callback always resolves
NextDefaultCallBack ==
    \/ \E f \in Flows : StartLogin(f)
    \/ \E f \in Flows : StartLogout(f)
    \/ \E f \in Flows : StartGetToken(f)
    \/ \E f \in Flows : PopupResolves(f)
    \/ \E f \in Flows : PopupRejects(f)
    \/ \E f \in Flows : RedirectPromiseResolves(f)
    \/ \E f \in Flows : RedirectPromiseRejects(f)
    \/ PageReload
    \/ \E f \in Flows : CallbackResolves(f)
    \/ \E f \in Flows : SilentResolves(f)
    \/ \E f \in Flows : SilentRejects(f)
    \/ \E f \in Flows : LogoutResolves(f)
    \/ \E f \in Flows : LogoutRejects(f)
    \/ ProviderCacheCleared

SpecDefaultCallBack == InitDefaultCallBack /\ [][NextDefaultCallBack]_vars

(* ------------------------------------------- the Appoint facade (signIn) *)
InitAppoint ==
    /\ store = EmptyStore
    /\ msal = [accounts |-> {}, active |-> NULL]
    /\ flows = [f \in Flows |-> IdleFlow]
    /\ signInMethod \in {POPUP, REDIRECT}
    /\ signInMultipleAccountsCallBack = "app"
    /\ graphPermissions \in {"profile", "other"}
    /\ redirect = "none"
    /\ calls = 0
    /\ last = NoEvent
    /\ graphVersion = "v1.0"
    /\ endPoint = <<>>
    /\ urlPlain = <<>>
    /\ urlSlash = <<>>

NextAppoint ==
    \/ \E f \in Flows : StartSignIn(f)
    \/ \E f \in Flows : StartSignOut(f)
    \/ \E f \in Flows : PopupResolves(f)
    \/ \E f \in Flows : PopupRejects(f)
    \/ \E f \in Flows : RedirectPromiseResolves(f)
    \/ \E f \in Flows : RedirectPromiseRejects(f)
    \/ PageReload
    \/ \E f \in Flows : CallbackResolves(f)
    \/ \E f \in Flows : CallbackRejects(f)
    \/ \E f \in Flows : SilentResolves(f)
    \/ \E f \in Flows : SilentRejects(f)
    \/ \E f \in Flows : LogoutResolves(f)
    \/ \E f \in Flows : LogoutRejects(f)
    \/ \E f \in Flows : FetchResponds(f)
    \/ \E f \in Flows : FetchThrows(f)
    \/ ProviderCacheCleared

SpecAppoint == InitAppoint /\ [][NextAppoint]_vars

\* the application also asks the facade for tokens
NextFacade ==
    \/ \E f \in Flows : StartAppointGetToken(f)
    \/ NextAppoint

SpecFacade == InitAppoint /\ [][NextFacade]_vars

(* ------------------ a page load that is the return leg of a redirect *)
\* what the previous page can leave behind when it navigates away (each of
\* these is reached by Spec within three calls): nothing; the provider's
\* cache only; the flag of a silent refresh that failed after the clear;
\* the account and flag a selection written after the clear, with or
\* without the roles of its confirming fetch
ReturnLegSessions ==
    {[store |-> EmptyStore, msal |-> [accounts |-> {}, active |-> NULL]],
     [store |-> EmptyStore, msal |-> [accounts |-> {"A"}, active |-> "A"]],
     [store |-> [acct |-> NULL, roles |-> NULL, lr |-> "yes"],
      msal  |-> [accounts |-> {}, active |-> NULL]],
     [store |-> [acct |-> "A", roles |-> NULL, lr |-> "no"],
      msal  |-> [accounts |-> {"A", "B"}, active |-> "A"]],
     [store |-> [acct |-> "A", roles |-> "r1", lr |-> "no"],
      msal  |-> [accounts |-> {"A", "B"}, active |-> "A"]]}

InitReturnLeg ==
    /\ \E s \in ReturnLegSessions : store = s.store /\ msal = s.msal
    /\ flows = [f \in Flows |-> IdleFlow]
    /\ signInMethod = REDIRECT
    /\ signInMultipleAccountsCallBack = "app"
    /\ graphPermissions = "profile"
    /\ redirect = "returned"
    /\ calls = 0
    /\ last = NoEvent
    /\ graphVersion = "v1.0"
    /\ endPoint = <<>>
    /\ urlPlain = <<>>
    /\ urlSlash = <<>>

NextReturnLeg ==
    \/ \E f \in Flows : StartLogin(f)
    \/ \E f \in Flows : StartGetToken(f)
    \/ \E f \in Flows : RedirectPromiseResolves(f)
    \/ \E f \in Flows : RedirectPromiseRejects(f)
    \/ PageReload
    \/ \E f \in Flows : CallbackResolves(f)
    \/ \E f \in Flows : CallbackRejects(f)
    \/ \E f \in Flows : SilentResolves(f)
    \/ \E f \in Flows : SilentRejects(f)
    \/ ProviderCacheCleared

SpecReturnLeg == InitReturnLeg /\ [][NextReturnLeg]_vars

(* ---------------- a page load with the session of an earlier sign-in *)
\* the store and the provider's cache as a login() that resolved with an
\* inline account left them (Spec reaches this state with one call)
InitSignedIn ==
    /\ store = [acct |-> "A", roles |-> "r1", lr |-> "no"]
    /\ msal = [accounts |-> {"A"}, active |-> NULL]
    /\ flows = [f \in Flows |-> IdleFlow]
    /\ signInMethod \in {POPUP, REDIRECT}
    /\ signInMultipleAccountsCallBack = "app"
    /\ graphPermissions = "profile"
    /\ redirect = "none"
    /\ calls = 0
    /\ last = NoEvent
    /\ graphVersion = "v1.0"
    /\ endPoint = <<>>
    /\ urlPlain = <<>>
    /\ urlSlash = <<>>

SpecSignedIn == InitSignedIn /\ [][Next]_vars

\* The authentication calls on their own, from the persisted session, with
\* a provider (and a selection callback) that answers every request made of
\* it: each await of Authentication.ts on msalClient or on the callback
\* eventually settles, one way or the other.
NextAuth ==
    \/ \E f \in Flows :
          \/ StartLogin(f)
          \/ StartLogout(f)
          \/ StartGetToken(f)
          \/ PopupResolves(f)
          \/ PopupRejects(f)
          \/ RedirectPromiseResolves(f)
          \/ RedirectPromiseRejects(f)
          \/ CallbackResolves(f)
          \/ CallbackRejects(f)
          \/ SilentResolves(f)
          \/ SilentRejects(f)
          \/ LogoutResolves(f)
          \/ LogoutRejects(f)
    \/ PageReload
    \/ ProviderCacheCleared

ProviderAnswers ==
    \A f \in Flows :
        /\ WF_vars(PopupResolves(f) \/ PopupRejects(f))
        /\ WF_vars(RedirectPromiseResolves(f) \/ RedirectPromiseRejects(f))
        /\ WF_vars(CallbackResolves(f) \/ CallbackRejects(f))
        /\ WF_vars(SilentResolves(f) \/ SilentRejects(f))
        /\ WF_vars(LogoutResolves(f) \/ LogoutRejects(f))

SpecAnswered == InitSignedIn /\ [][NextAuth]_vars /\ ProviderAnswers

(* ============================================================== claims *)
\* a call's promise settled in the latest step
Settled(op)  == last.f # 0 /\ last.fl.op = op
Resolved(op) == Settled(op) /\ last.fl.status = "resolved"
Rejected(op) == Settled(op) /\ last.fl.status = "rejected"

\* flow f as the step leaves it (the settled record when its promise settled)
Post(f) == IF last'.f = f THEN last'.fl ELSE flows'[f]

\* the step is the start of public call op in slot f
Started(f, op) == flows[f].pc = "idle" /\ calls' = calls + 1 /\ Post(f).op = op

NoInteractiveLogin(fl) == fl.nPopup = 0 /\ fl.nRedir = 0

\* C1: when a login() call resolves through the single-account path (the
\* provider result carries an account), isUserLoggedIn() is true and the
\* persisted activeAccountId is the homeAccountId of the returned account,
\* whatever calls preceded it.
C1_LoginInlineRegisters ==
    (Resolved("login") /\ last.fl.path = "inline")
        => (isUserLoggedIn /\ store.acct = last.fl.value.account)

C1_Witness ==
    /\ Resolved("login") /\ last.fl.path = "inline"
    /\ calls >= 2
    /\ last.pre.acct # last.fl.value.account
    /\ store.acct = last.fl.value.account

\* C2: whenever a login() call rejects in login processing (provider login
\* failure, zero accounts, selection-callback failure, failure of the
\* confirming token fetch), the persisted loginRequired flag is not "no"
\* at the moment the rejection is delivered.
LoginProcessingFailed ==
    /\ Rejected("login")
    /\ \/ Head(last.fl.err) = signInErrorUnknown
       \/ last.fl.path \in {"zero", "single", "multi"}

\* (stated for a login() that is the only call made so far, so that no
\* other flow can have written the flag)
C2_FailedLoginNeverTrusted ==
    (LoginProcessingFailed /\ calls = 1) => store.lr # "no"

\* C3: logout() called when no active account is resolvable (no stored
\* identifier, or one the provider does not know) resolves at once and
\* invokes neither logoutPopup nor logoutRedirect, every time it is called.
C3_LogoutWithoutAccount ==
    [][\A f \in Flows :
         (Started(f, "logout") /\ ~isUserLoggedIn)
             => /\ last'.f = f
                /\ last'.fl.status = "resolved"
                /\ last'.fl.nLogout = 0
                /\ msal' = msal]_vars

\* (a repeated logout() meeting a stored identifier the provider does not know)
C3_Witness ==
    /\ Resolved("logout") /\ last.fl.nLogout = 0
    /\ last.pre.acct # NULL
    /\ calls >= 2

\* C4: from any session state, the step that starts logout() leaves
\* activeAccountId, roles and loginRequired absent, the provider logout (if
\* any) being issued with the store already cleared; logout() itself writes
\* nothing when the provider call later succeeds or fails.
C4_LogoutClearsFirst ==
    [][\A f \in Flows :
         /\ Started(f, "logout") => store' = EmptyStore
         /\ (flows[f].pc = "awaitLogout" /\ last'.f = f) => store' = store]_vars

\* (a logout() that found a full session record and whose provider call failed)
C4_Witness ==
    /\ Rejected("logout") /\ last.fl.nLogout = 1
    /\ store = EmptyStore

\* C5: batch() with more than 20 sub-requests rejects with
\* graph_batch_request_limit without acquiring a token, calling the provider
\* or issuing an HTTP request, and leaves the persisted session unchanged;
\* with exactly 20 it is never rejected for its size and goes on to token
\* acquisition (getToken is called), the HTTP request following the token.
C5_BatchLimit ==
    /\ \A f \in Flows : flows[f].op = "batch" => flows[f].n <= BatchLimit
    /\ (Settled("batch") /\ last.fl.n > BatchLimit)
          => /\ last.fl.status = "rejected"
             /\ last.fl.err = <<batchRequestLimit>>
             /\ last.fl.nGetToken = 0
             /\ last.fl.nSilent = 0 /\ last.fl.nFetch = 0
             /\ NoInteractiveLogin(last.fl)
             /\ store = last.pre
    /\ (Settled("batch") /\ last.fl.n <= BatchLimit)
          => /\ ~(last.fl.status = "rejected" /\ last.fl.err = <<batchRequestLimit>>)
             /\ last.fl.nGetToken >= 1
             /\ (last.fl.value.kind = "json") => last.fl.nFetch = 1

\* (a batch of 21 refused while a session is stored, and a batch of 20 whose
\* HTTP request was issued and answered)
C5_Witness ==
    /\ Settled("batch") /\ last.fl.n = BatchLimit + 1
    /\ last.fl.err = <<batchRequestLimit>>
    /\ store.acct # NULL /\ store.lr = "no"

C5_WitnessTwenty ==
    /\ Resolved("batch") /\ last.fl.n = BatchLimit
    /\ last.fl.nFetch = 1 /\ last.fl.value.kind = "json"

\* C6: for every endpoint e that does not start with "/", get(e) and
\* get("/" + e) request the same URL <base>/<version>/<e>, with exactly one
\* separator between the version segment and the endpoint.
C6_EndPointNormalised ==
    (urlPlain # <<>> /\ urlSlash # <<>> /\ (endPoint = <<>> \/ Head(endPoint) # "/"))
        => /\ urlPlain = urlSlash
           /\ urlPlain = <<GRAPH_API_BASE, "/", graphVersion, "/">> \o endPoint

C6_Witness ==
    /\ endPoint = <<"m", "e">>
    /\ urlSlash = <<GRAPH_API_BASE, "/", graphVersion, "/", "m", "e">>
    /\ urlPlain = urlSlash

\* the step is acquireTokenSilent rejecting with error e for the silent
\* refresh that a top-level getToken() of slot f issued for the stored account
SilentRefreshFails(f, e) ==
    /\ flows[f].pc = "awaitSilent" /\ flows[f].op = "getToken"
    /\ flows[f].conts = <<>> /\ NoInteractiveLogin(flows[f])
    /\ flows'[f] # flows[f]
    /\ Post(f).silent = e /\ Post(f).nSilent = flows[f].nSilent

C9_MultiAccountSelection ==
    [][\A f \in Flows :
         (flows[f].pc = "awaitCallback" /\ Post(f).sel # NULL)
             => /\ Post(f).sel \in flows[f].cands
                /\ store'.acct = Post(f).sel
                /\ msal'.active = Post(f).sel
                /\ Post(f).sel \in msal.accounts
                     => /\ flows'[f].pc = "awaitSilent"
                        /\ flows'[f].acct = Post(f).sel
                        /\ flows'[f].tt = APP
                        /\ flows'[f].nSilent = flows[f].nSilent + 1]_vars

C9_Witness ==
    \E f \in Flows :
        /\ flows[f].pc = "awaitSilent" /\ flows[f].path = "multi"
        /\ flows[f].sel = "B" /\ flows[f].acct = "B" /\ flows[f].tt = APP
        /\ store.acct = "B" /\ msal.active = "B"
        /\ msal.accounts = {"A", "B"}

\* C10: when the silent refresh for the stored account fails with the
\* missing-permission error, getToken() rejects with MissingPermissionScope
\* for forceLogin = true and = false alike, the persisted record (so
\* loginRequired = no) is left as it is, and no interactive login is invoked.
C10_MissingPermission ==
    [][\A f \in Flows :
         SilentRefreshFails(f, MISSING_PERMISSION)
             => /\ last'.f = f
                /\ last'.fl.status = "rejected"
                /\ last'.fl.err = <<getTokenMissingPermissionScope>>
                /\ store' = store
                /\ NoInteractiveLogin(last'.fl)]_vars

C10_Witness ==
    /\ Rejected("getToken") /\ last.fl.force
    /\ last.fl.silent = MISSING_PERMISSION
    /\ last.pre.lr = "no" /\ last.pre.acct \in msal.accounts
    /\ store.lr = "no"

\* the stored identifier is absent or names an account the provider does not know
NoResolvableAccount == store.acct = NULL \/ store.acct \notin msal.accounts

\* C11: getToken() on the non-forced path (forceLogin false, or the flag
\* no) with no resolvable active account rejects with NotLoggedIn in the
\* step that starts it: acquireTokenSilent is not called, no login is
\* triggered, and the persisted fields are left as they are.
C11_NotLoggedInImmediately ==
    [][\A f \in Flows :
         (Started(f, "getToken") /\ NoResolvableAccount
              /\ (~Post(f).force \/ store.lr = "no"))
             => /\ last'.f = f
                /\ last'.fl.status = "rejected"
                /\ last'.fl.err = <<getTokenNotLoggedIn>>
                /\ last'.fl.nSilent = 0
                /\ NoInteractiveLogin(last'.fl)
                /\ flows'[f].pc = "idle"
                /\ store' = store]_vars

\* (a stored identifier the provider no longer knows, flag still no)
C11_Witness ==
    /\ Rejected("getToken") /\ last.fl.err = <<getTokenNotLoggedIn>>
    /\ last.pre.acct # NULL /\ last.pre.lr = "no"
    /\ last.fl.nSilent = 0
    /\ store = last.pre

\* C12: getToken(tokenType, forceLogin = true) called while the persisted
\* flag is yes delegates straight to login(): no acquireTokenSilent is
\* attempted, the configured sign-in path is entered, and the call settles
\* with what login() settles with (the popup's result, or its failure
\* wrapped as signInErrorUnknown).
C12_ForcedDelegatesToLogin ==
    [][\A f \in Flows :
         /\ (Started(f, "getToken") /\ Post(f).force /\ store.lr = "yes")
              => /\ Post(f).nSilent = 0
                 /\ flows'[f].conts = <<>>
                 /\ signInMethod = POPUP
                      => /\ flows'[f].pc = "awaitPopup"
                         /\ flows'[f].nPopup = 1
                         /\ store' = EmptyStore
                 /\ signInMethod = REDIRECT => flows'[f].pc = "awaitRedirect"
         /\ (flows[f].pc = "awaitPopup" /\ flows[f].op = "getToken"
                /\ flows[f].nSilent = 0 /\ last'.f = f)
              => \/ /\ last'.fl.path = "inline"
                    /\ last'.fl.status = "resolved"
                    /\ last'.fl.value.src = POPUP
                    /\ store'.acct = last'.fl.value.account
                 \/ /\ last'.fl.path = "none"
                    /\ last'.fl.status = "rejected"
                    /\ last'.fl.err = <<signInErrorUnknown, "BrowserAuthError">>
                 \/ /\ last'.fl.path = "zero"
                    /\ last'.fl.status = "rejected"
                    /\ last'.fl.err = <<processLoginNoAccounts>>
                 \/ /\ last'.fl.path = "single"
                    /\ last'.fl.status = "rejected"
                    /\ last'.fl.err = <<getTokenNotLoggedIn>>]_vars

\* (the forced getToken resolved with the popup's result, no silent attempt)
C12_Witness ==
    /\ Resolved("getToken") /\ last.fl.force
    /\ last.fl.nSilent = 0 /\ last.fl.nPopup = 1
    /\ last.fl.nGetToken = 1
    /\ last.fl.value.src = POPUP
    /\ last.pre.lr = "yes"

ResourceCall(fl) == fl.op \in {"get", "batch"}

\* C14: in every get() and batch() call the HTTP request is issued only
\* after a resource-scope token was acquired in that same call (the bearer
\* the request carries is a token for the graph scopes), and a call whose
\* token acquisition rejected has issued no HTTP request.
C14_TokenBeforeFetch ==
    /\ \A f \in Flows :
          (ResourceCall(flows[f]) /\ flows[f].nFetch > 0) => flows[f].bearer = GRAPH
    /\ (last.f # 0 /\ ResourceCall(last.fl))
          => /\ last.fl.nFetch > 0 => last.fl.bearer = GRAPH
             /\ last.fl.bearer = "none" => last.fl.nFetch = 0
             /\ last.fl.nFetch <= 1

\* the ordering alone: no HTTP request without a token obtained from
\* getToken( GRAPH, forceLogin ) in the same call, whatever its scopes
C14_SomeTokenBeforeFetch ==
    /\ \A f \in Flows :
          (ResourceCall(flows[f]) /\ flows[f].nFetch > 0)
              => flows[f].bearer # "none" /\ flows[f].nGetToken >= 1
    /\ (last.f # 0 /\ ResourceCall(last.fl))
          => /\ last.fl.nFetch > 0 => (last.fl.bearer # "none" /\ last.fl.nGetToken >= 1)
             /\ last.fl.bearer = "none" => last.fl.nFetch = 0
             /\ last.fl.nFetch <= 1

\* C15: for a non-200 response, error code accessDenied and error code
\* ErrorAccessDenied are both mapped to AccessDenied, and
\* Authorization_RequestDenied is mapped to RequestDenied.
C15_DeniedCodesMapped ==
    (Settled("get") /\ last.fl.http # 0 /\ last.fl.http # 200)
        => /\ last.fl.code \in {ACCESS_DENIED, ERROR_ACCESS_DENIED}
                => (last.fl.status = "rejected" /\ last.fl.err = <<getAccessDenied>>)
           /\ last.fl.code = REQUEST_DENIED
                => (last.fl.status = "rejected" /\ last.fl.err = <<getRequestDenied>>)

\* the two codes the source does map as the claim says
C15_TwoCodesMapped ==
    (Settled("get") /\ last.fl.http # 0 /\ last.fl.http # 200)
        => /\ last.fl.code = ACCESS_DENIED
                => (last.fl.status = "rejected" /\ last.fl.err = <<getAccessDenied>>)
           /\ last.fl.code = REQUEST_DENIED
                => (last.fl.status = "rejected" /\ last.fl.err = <<getRequestDenied>>)

\* the outcome of the HTTP leg of a resource call that settled
CallOutcome(fl) ==
    IF fl.code = "threw"
    THEN fl.status = "rejected" /\ fl.err = <<getUnknownError, "TypeError">>
    ELSE IF fl.http = 200
    THEN fl.status = "resolved" /\ fl.value = Json
    ELSE IF fl.code \in {REQUEST_DENIED, ACCESS_DENIED, ERROR_ACCESS_DENIED}
    THEN fl.status = "rejected" /\ Head(fl.err) \in {getRequestDenied, getAccessDenied}
    ELSE fl.status = "rejected" /\ fl.err = <<getUnknownError, "body">>

\* C16: the outcome of a resource call (get or batch) whose HTTP request was
\* issued is total and exclusive: 200 resolves with the parsed body; a
\* non-200 with an unrecognized or absent error code rejects with
\* UnknownGraphError carrying the raw body; an exception of fetch or of the
\* JSON parse rejects with UnknownGraphError; nothing resolves on a non-200.
C16_OutcomeTotalExclusive ==
    (last.f # 0 /\ ResourceCall(last.fl) /\ last.fl.nFetch > 0) => CallOutcome(last.fl)

\* the same for get(), which returns what Graph.call returns
C16_GetOutcome ==
    (Settled("get") /\ last.fl.nFetch > 0) => CallOutcome(last.fl)

\* the codes of the structured { code, description } taxonomy values
TaxonomyCodes ==
    {signInErrorUnknown, getTokenMissingPermissionScope,
     getTokenAuthenticationRequired, getTokenNotLoggedIn,
     processLoginMultipleAccountError, processLoginNoAccounts,
     getRequestDenied, getAccessDenied, getUnknownError, batchRequestLimit,
     "auth_signInMethod_unknown", "graph_endPoint_invalid",
     "graph_call_request_invalid", "appoint_not_logged_in"}

\* the rejection is the error acquireTokenSilent raised, of a class the
\* token acquisition does not recognise
SilentPassThrough(fl) ==
    /\ fl.err = <<fl.silent>>
    /\ fl.silent \in SilentErrors \ {MISSING_PERMISSION, EXPIRED_TOKEN}

\* C17: every rejection delivered to a caller (login, logout / signOut,
\* getToken, get, batch) is a structured taxonomy value, except the
\* pass-through of an unrecognised provider error of the silent refresh.
C17_RejectionsStructured ==
    (last.f # 0 /\ last.fl.status = "rejected")
        => (Head(last.fl.err) \in TaxonomyCodes \/ SilentPassThrough(last.fl))

\* the same, logout() left aside
C17_ExceptLogout ==
    (last.f # 0 /\ last.fl.status = "rejected" /\ last.fl.op # "logout")
        => (Head(last.fl.err) \in TaxonomyCodes \/ SilentPassThrough(last.fl))

\* the step is one of flow f's own segments (not another flow's, not the
\* page unloading under it)
Moves(f) == last'.f = f \/ (flows'[f] # flows[f] /\ flows'[f].pc # "idle")

\* C18: the clear of logout() and of a fresh login attempt (popup opened,
\* redirect navigation triggered) removes activeAccountId, roles and
\* loginRequired within one step: every state another flow can observe
\* after it has all three absent.
C18_ClearIsOneStep ==
    [][\A f \in Flows :
         /\ Started(f, "logout") => store' = EmptyStore
         /\ (Moves(f) /\ Post(f).nPopup = flows[f].nPopup + 1) => store' = EmptyStore
         /\ (Moves(f) /\ Post(f).nRedir = flows[f].nRedir + 1) => store' = EmptyStore]_vars

\* (the popup of a forced recovery is open: identifier and flag were stored
\* when the clear ran, and another call is in flight to observe the store)
C18_Witness ==
    \E f, g \in Flows :
        /\ flows[f].pc = "awaitPopup" /\ flows[f].silent = EXPIRED_TOKEN
        /\ g # f /\ flows[g].pc # "idle"
        /\ store = EmptyStore

Dangling == store.acct # NULL /\ store.acct \notin msal.accounts

\* C19: a stored identifier the provider does not report is never trusted:
\* isUserLoggedIn() is true exactly when the identifier is present and the
\* provider resolves it; with a dangling identifier getToken() issues no
\* silent request (it rejects with NotLoggedIn, or, forced with the flag
\* yes, goes to login()), and login() starts a fresh interactive attempt,
\* whatever loginRequired is.
C19_DanglingNeverTrusted ==
    [][/\ isUserLoggedIn <=> (store.acct # NULL /\ store.acct \in msal.accounts)
       /\ isUserLoggedIn' <=> (store'.acct # NULL /\ store'.acct \in msal'.accounts)
       /\ \A f \in Flows :
            /\ (Started(f, "getToken") /\ Dangling)
                 => /\ Post(f).nSilent = 0
                    /\ IF Post(f).force /\ store.lr = "yes"
                       THEN /\ signInMethod = POPUP
                                 => (flows'[f].pc = "awaitPopup" /\ store' = EmptyStore)
                            /\ signInMethod = REDIRECT => flows'[f].pc = "awaitRedirect"
                       ELSE /\ last'.f = f
                            /\ last'.fl.status = "rejected"
                            /\ last'.fl.err = <<getTokenNotLoggedIn>>
            /\ (Started(f, "login") /\ Dangling /\ signInMethod = POPUP)
                 => /\ flows'[f].pc = "awaitPopup"
                    /\ flows'[f].nPopup = 1 /\ flows'[f].nSilent = 0
                    /\ store' = EmptyStore
            /\ (flows[f].pc = "awaitRedirect" /\ flows[f].op = "login" /\ Moves(f)
                   /\ redirect # "returned" /\ Dangling)
                 => /\ redirect' = "triggered"
                    /\ Post(f).nRedir = flows[f].nRedir + 1
                    /\ Post(f).nSilent = flows[f].nSilent
                    /\ store' = EmptyStore]_vars

\* (the dangling identifier was stored with the flag yes)
C19_Witness ==
    /\ Rejected("getToken") /\ last.fl.err = <<getTokenNotLoggedIn>>
    /\ last.pre.acct # NULL /\ last.pre.acct \notin msal.accounts
    /\ last.pre.lr = "yes"
    /\ last.fl.nSilent = 0

\* C20: an absent loginRequired flag is treated exactly like yes:
\* getToken(forceLogin = true) with the flag absent delegates to login(), and
\* login() with an account present and the flag absent starts the
\* interactive login instead of trusting the silent refresh.
C20_AbsentFlagIsYes ==
    [][\A f \in Flows :
         /\ (Started(f, "getToken") /\ Post(f).force /\ store.lr = NULL)
              => /\ Post(f).nSilent = 0
                 /\ signInMethod = POPUP => flows'[f].pc = "awaitPopup"
                 /\ signInMethod = REDIRECT => flows'[f].pc = "awaitRedirect"
         /\ (Started(f, "login") /\ isUserLoggedIn /\ store.lr = NULL
                /\ signInMethod = POPUP)
              => flows'[f].pc = "awaitPopup"
         /\ (flows[f].pc = "awaitRedirect" /\ flows[f].op = "login" /\ Moves(f)
                /\ redirect # "returned" /\ isUserLoggedIn /\ store.lr = NULL)
              => redirect' = "triggered"]_vars

\* C21: when no multi-account selection callback is configured and the
\* provider returns more than one account, no account is picked on the
\* application's behalf: the result processing that met the list never
\* adopts one of its accounts, and the call it belongs to rejects with the
\* configuration error (auth_multiple_account_error).
C21_NoSilentDefault ==
    signInMultipleAccountsCallBack = "default"
        => /\ \A f \in Flows : flows[f].path = "multi" => flows[f].sel = NULL
           /\ (last.f # 0 /\ last.fl.path = "multi")
                 => /\ last.fl.sel = NULL
                    /\ last.fl.status = "rejected"
                    /\ last.fl.err = <<processLoginMultipleAccountError>>

\* the profile batch of a signIn() failed: no token was obtained for it, or
\* its HTTP request threw or was answered with a non-200 status
ProfileBatchFailed(fl) ==
    fl.nBatch > 0 /\ (fl.nFetch = 0 \/ fl.code = "threw" \/ fl.http # 200)

\* C22: signIn() runs the profile batch only after login() has resolved; if
\* login() rejects no resource call is made (no batch, no HTTP request) and
\* signIn() rejects with login()'s error; if login() resolves but the batch
\* fails (token acquisition or HTTP failure) signIn() rejects, and it
\* resolves only when the batch was answered 200 (or is not made at all,
\* the graph permissions holding no profile scope).
C22_SignInSurfacesBatchFailure ==
    /\ \A f \in Flows :
          (flows[f].nBatch > 0 \/ flows[f].nFetch > 0)
              => (flows[f].op = "signIn" /\ flows[f].loginOut = "resolved")
    /\ Settled("signIn")
          => /\ last.fl.nBatch > 0 => last.fl.loginOut = "resolved"
             /\ last.fl.nBatch <= 1 /\ last.fl.nFetch <= last.fl.nBatch
             /\ last.fl.loginOut = "rejected"
                   => /\ last.fl.status = "rejected"
                      /\ last.fl.nBatch = 0 /\ last.fl.nFetch = 0
             /\ (last.fl.loginOut = "resolved" /\ ProfileBatchFailed(last.fl))
                   => last.fl.status = "rejected"
             /\ last.fl.status = "resolved"
                   => /\ last.fl.loginOut = "resolved"
                      /\ \/ last.fl.nBatch = 0 /\ graphPermissions = "other"
                         \/ last.fl.nFetch = 1 /\ last.fl.http = 200

\* (login() resolved, the batch's request was answered with a non-200 status)
C22_Witness ==
    /\ Rejected("signIn") /\ last.fl.loginOut = "resolved"
    /\ last.fl.nFetch = 1 /\ last.fl.http = 403
    /\ last.fl.err = <<"TypeError">>

\* (login() resolved after triggering the redirect navigation; no token for
\* the batch)
C22_WitnessNoToken ==
    /\ Rejected("signIn") /\ last.fl.loginOut = "resolved"
    /\ last.fl.nBatch = 1 /\ last.fl.nFetch = 0

\* (login() rejected: nothing else was attempted)
C22_WitnessLoginRejected ==
    /\ Rejected("signIn") /\ last.fl.loginOut = "rejected"
    /\ last.fl.nBatch = 0

\* C23: in every login flow, a step that writes loginRequired = no has, in
\* that same flow, a successful token acquisition for the adopted account
\* behind it: the interactive result carried the account, or
\* acquireTokenSilent succeeded for it.
C23_FlagNoOnlyAfterToken ==
    [][\A f \in Flows :
         (Moves(f) /\ store'.lr = "no" /\ store.lr # "no")
             => \/ Post(f).path = "inline"
                \/ Post(f).silent = "ok"]_vars

\* the same with the step that resumes from the selection callback left aside
C23_ExceptAfterCallback ==
    [][\A f \in Flows :
         (Moves(f) /\ store'.lr = "no" /\ store.lr # "no"
              /\ flows[f].pc # "awaitCallback")
             => \/ Post(f).path = "inline"
                \/ Post(f).silent = "ok"]_vars

\* an account is present and trusted: the stored identifier resolves with
\* the provider and the flag does not ask for a login
Trusted == isUserLoggedIn /\ store.lr # "yes"

\* C24: popup login(): with an account present and trusted, loginPopup is
\* not invoked and a token for the application scopes is requested silently
\* through getToken(APP, forceLogin = true), the persisted account and roles
\* being left as they are when it succeeds; otherwise the session is cleared
\* first, the provider's loginPopup is invoked once, and its result goes to
\* processLoginResult.
C24_PopupLogin ==
    [][\A f \in Flows :
         /\ (Started(f, "login") /\ signInMethod = POPUP /\ Trusted)
              => /\ flows'[f].pc = "awaitSilent"
                 /\ flows'[f].nPopup = 0 /\ flows'[f].nSilent = 1
                 /\ flows'[f].tt = APP /\ flows'[f].force
                 /\ flows'[f].acct = store.acct
                 /\ store' = store
         /\ (flows[f].op = "login" /\ flows[f].pc = "awaitSilent"
                /\ signInMethod = POPUP /\ flows[f].path = "none"
                /\ Moves(f) /\ Post(f).silent = "ok")
              => /\ last'.f = f /\ last'.fl.status = "resolved"
                 /\ last'.fl.nPopup = 0
                 /\ store'.acct = store.acct /\ store'.roles = store.roles
         /\ (Started(f, "login") /\ signInMethod = POPUP /\ ~Trusted)
              => /\ flows'[f].pc = "awaitPopup"
                 /\ flows'[f].nPopup = 1 /\ flows'[f].nSilent = 0
                 /\ flows'[f].path = "none"
                 /\ store' = EmptyStore
         /\ (flows[f].op = "login" /\ flows[f].pc = "awaitPopup" /\ Moves(f))
              => /\ Post(f).nPopup = 1
                 /\ \/ Post(f).path \in {"inline", "single", "multi", "zero"}
                    \/ /\ last'.f = f /\ last'.fl.status = "rejected"
                       /\ last'.fl.err = <<signInErrorUnknown, "BrowserAuthError">>
                       /\ last'.fl.path = "none"]_vars

\* (a trusted account with stored roles: login() resolved without a popup)
C24_Witness ==
    /\ Resolved("login") /\ last.fl.nPopup = 0 /\ last.fl.silent = "ok"
    /\ last.fl.value.src = "silent"
    /\ last.pre.lr = "no" /\ last.pre.roles = "r1"
    /\ store = last.pre

\* (no trusted account: the popup was opened once and its result processed)
C24_WitnessPopup ==
    /\ Resolved("login") /\ last.fl.nPopup = 1 /\ last.fl.path = "inline"
    /\ last.pre = EmptyStore /\ calls = 1

\* C25: redirect login(): when handleRedirectPromise() reports a pending
\* result, that result goes to processLoginResult whatever the persisted
\* session is, and the call starts neither loginRedirect nor the
\* trusted-account silent fetch getToken(APP, forceLogin = true) (a silent
\* fetch it issues is the confirming one of processLoginResult).
C25_PendingResultProcessed ==
    [][\A f \in Flows :
         (flows[f].pc = "awaitRedirect" /\ redirect = "returned" /\ Moves(f)
              /\ ~(last'.f = f /\ Head(last'.fl.err \o <<"none">>) = signInErrorUnknown))
             => /\ Post(f).path \in {"inline", "single", "multi", "zero"}
                /\ store'.lr # NULL
                /\ Post(f).path = "inline"
                     => (store'.lr = "no" /\ store'.acct # NULL
                           /\ store'.acct \in msal'.accounts)
                /\ Post(f).nRedir = flows[f].nRedir
                /\ redirect' = "none"
                /\ flows'[f].pc = "awaitSilent"
                     => /\ ~flows'[f].force
                        /\ Head(flows'[f].conts) = "plr"
                        /\ flows'[f].path = "single"]_vars

\* (account A was stored and trusted; the pending result, for B, was
\* processed all the same)
C25_Witness ==
    /\ Resolved("login") /\ last.fl.path = "inline"
    /\ last.pre.acct = "A" /\ last.pre.lr = "no" /\ "A" \in msal.accounts
    /\ store.acct = "B"
    /\ last.fl.nRedir = 0 /\ last.fl.nSilent = 0

\* C26: redirect login() with no pending redirect result and no trusted
\* account clears activeAccountId, roles and loginRequired and then triggers
\* the provider's loginRedirect, once; from then on, across the page unload
\* and until the return leg is processed, the persisted session has no
\* activeAccountId and loginRequired is not no.
C26_RedirectLeavesNoSession ==
    /\ redirect \in {"triggered", "returned"}
          => (store.acct = NULL /\ store.lr # "no")
    /\ \A f \in Flows : flows[f].nRedir <= 1
    /\ last.f # 0 => last.fl.nRedir <= 1

\* the triggering step alone
C26_TriggerClears ==
    [][\A f \in Flows :
         (flows[f].pc = "awaitRedirect" /\ redirect # "returned" /\ Moves(f)
              /\ ~Trusted)
             => /\ store' = EmptyStore
                /\ redirect' = "triggered"
                /\ Post(f).nRedir = flows[f].nRedir + 1
                /\ Post(f).nSilent = flows[f].nSilent
                /\ last'.f = f]_vars

\* C27: login() never rejects with a raw provider exception: whatever fails
\* while it runs, the rejection is a taxonomy entry (the errors of result
\* processing, or auth_signIn_error_unknown wrapping anything else), also
\* when the trusted-account token fetch it delegates to fails with a
\* provider error the token acquisition does not recognise.
C27_LoginNeverLeaksProviderError ==
    Rejected("login") => Head(last.fl.err) \in TaxonomyCodes

\* the failures of the provider's own login calls are wrapped
C27_InteractiveFailuresWrapped ==
    (Rejected("login") /\ Head(last.fl.err) \notin TaxonomyCodes)
        => /\ last.fl.silent \in SilentErrors \ {MISSING_PERMISSION, EXPIRED_TOKEN}
           /\ last.fl.err = <<last.fl.silent>>

\* C28: processLoginResult with no inline account and getAllAccounts()
\* returning no account fails with NoAccountsReturned (auth_no_accounts),
\* and when the failure is delivered loginRequired = yes and
\* activeAccountId is absent: the pessimistic flag is kept, nothing is
\* registered.
C28_ZeroAccounts ==
    (last.f # 0 /\ last.fl.path = "zero")
        => /\ last.fl.op \in {"login", "getToken"}
                => (last.fl.status = "rejected" /\ last.fl.err = <<processLoginNoAccounts>>)
           /\ last.fl.status = "rejected" \/ last.fl.op = "batch"
           /\ store.lr = "yes"
           /\ store.acct = NULL
           /\ store.roles = last.pre.roles

\* C28, as the source has it: the zero-account failure is
\* auth_no_accounts, it leaves loginRequired = yes, and it registers
\* nothing: activeAccountId and roles are what they were when the result
\* arrived (absent, unless another call stored them after this attempt's
\* clear).
C28_ZeroAccountsKeepsStore ==
    (last.f # 0 /\ last.fl.path = "zero")
        => /\ last.fl.op \in {"login", "getToken"}
                => (last.fl.status = "rejected" /\ last.fl.err = <<processLoginNoAccounts>>)
           /\ last.fl.status = "rejected" \/ last.fl.op = "batch"
           /\ store = [last.pre EXCEPT !.lr = "yes"]
           /\ last.fl.silent # "ok"

C28_Witness ==
    /\ Rejected("login") /\ last.fl.path = "zero"
    /\ last.fl.err = <<processLoginNoAccounts>>
    /\ store = [EmptyStore EXCEPT !.lr = "yes"]
    /\ msal.accounts = {}

\* C29: processLoginResult with no inline account and exactly one account
\* from getAllAccounts() adopts that account as active, attempts a silent
\* application-token fetch (acquireTokenSilent) for it, and when the fetch
\* succeeds persists its identifier and sets loginRequired = no, also when
\* the session was cleared at the start of the login attempt.
C29_SingleAccountConfirmed ==
    [][\A f \in Flows :
         (Moves(f) /\ flows[f].path = "none" /\ Post(f).path = "single")
             => /\ msal'.active \in msal'.accounts
                /\ flows'[f].pc = "awaitSilent"
                /\ flows'[f].acct = msal'.active
                /\ flows'[f].tt = APP
                /\ flows'[f].nSilent = flows[f].nSilent + 1]_vars

\* what the source does when the store is as the attempt's clear left it:
\* the account is set active with the provider, and the confirming getToken
\* rejects NotLoggedIn at once, without a silent request
C29_ClearedSessionNotLoggedIn ==
    [][\A f \in Flows :
         (Moves(f) /\ flows[f].path = "none" /\ Post(f).path = "single"
              /\ store.acct = NULL /\ Post(f).op \in {"login", "getToken"})
             => /\ msal'.active \in msal'.accounts
                /\ last'.f = f
                /\ last'.fl.status = "rejected"
                /\ last'.fl.err = <<getTokenNotLoggedIn>>
                /\ last'.fl.nSilent = flows[f].nSilent
                /\ store' = [store EXCEPT !.lr = "yes"]]_vars

\* what a non-forced getToken() rejects with when acquireTokenSilent
\* fails with e
SilentFailureOf(e) ==
    IF e = MISSING_PERMISSION THEN <<getTokenMissingPermissionScope>>
    ELSE IF e = EXPIRED_TOKEN THEN <<getTokenAuthenticationRequired>>
    ELSE <<e>>

\* C30: in the multi-account path, when the selection callback throws or
\* rejects, processLoginResult fails with MultipleAccountSelectionFailed
\* (auth_multiple_account_error, not the callback's error) and persists
\* nothing; when the callback succeeds and the confirming token fetch
\* fails, the fetch's own error is what the caller gets.
C30_CallbackAndFetchFailures ==
    [][\A f \in Flows :
         /\ (flows[f].pc = "awaitCallback" /\ Moves(f) /\ Post(f).cbErr # "none")
              => /\ last'.f = f
                 /\ Post(f).op \in {"login", "getToken"}
                      => /\ last'.fl.status = "rejected"
                         /\ last'.fl.err = <<processLoginMultipleAccountError>>
                 /\ Post(f).sel = NULL
                 /\ store' = store
                 /\ msal' = msal
         /\ (flows[f].pc = "awaitCallback" /\ Moves(f) /\ Post(f).sel # NULL
                /\ last'.f = f /\ Post(f).op \in {"login", "getToken"})
              => /\ last'.fl.status = "rejected"
                 /\ last'.fl.err = <<getTokenNotLoggedIn>>
         /\ \A e \in SilentErrors :
              (flows[f].pc = "awaitSilent" /\ flows[f].path = "multi"
                  /\ flows[f].op \in {"login", "getToken"}
                  /\ Moves(f) /\ Post(f).silent = e)
                => /\ last'.f = f
                   /\ last'.fl.status = "rejected"
                   /\ last'.fl.err = SilentFailureOf(e)]_vars

\* (the callback failed: the caller sees the taxonomy entry, nothing stored)
C30_Witness ==
    /\ Rejected("login") /\ last.fl.path = "multi"
    /\ last.fl.cbErr = "CallBackError"
    /\ last.fl.err = <<processLoginMultipleAccountError>>
    /\ store.acct = NULL

\* (the callback chose B, the confirming fetch failed with a provider error)
C30_WitnessFetch ==
    /\ Rejected("login") /\ last.fl.path = "multi" /\ last.fl.sel = "B"
    /\ last.fl.err = <<"BrowserAuthError">>

\* the step is flow f's login result going through processLoginResult
ResultProcessed(f) == Moves(f) /\ flows[f].path = "none" /\ Post(f).path # "none"

\* C31: the selection callback is invoked once per login result processing
\* when, and only when, the result carries no inline account and the
\* provider lists more than one account; it is invoked at no other point,
\* and not for an inline account or a list of zero or one.
C31_CallbackExactlyWhenMany ==
    [][\A f \in Flows :
         /\ ResultProcessed(f)
              => /\ Post(f).nCb = flows[f].nCb + 1
                      <=> (Post(f).path # "inline" /\ Cardinality(msal'.accounts) > 1)
                 /\ Post(f).nCb \in {flows[f].nCb, flows[f].nCb + 1}
                 /\ Post(f).nCb = flows[f].nCb + 1
                      => (flows'[f].pc = "awaitCallback" /\ flows'[f].cands = msal'.accounts)
         /\ (Moves(f) /\ ~ResultProcessed(f)) => Post(f).nCb = flows[f].nCb
         /\ Post(f).nCb <= 1]_vars

\* (two accounts listed, none inline: the callback is pending, asked once)
C31_Witness ==
    \E f \in Flows :
        /\ flows[f].pc = "awaitCallback" /\ flows[f].nCb = 1
        /\ flows[f].cands = {"A", "B"}

\* (two accounts listed but the result carried one: the callback was not asked)
C31_WitnessInline ==
    /\ Resolved("login") /\ last.fl.path = "inline" /\ last.fl.nCb = 0
    /\ msal.accounts = {"A", "B"}

\* the step is acquireTokenSilent answering flow f
SilentAnswered(f) == flows[f].pc = "awaitSilent" /\ Moves(f)

\* the silent failures on which getToken writes the flag
ExpiryErrors == {e \in IRCodes : errorCode(e) \in {EXPIRED_TOKEN, LOGIN_REQUIRED}}

\* C32: the flag writes of a getToken()/login() call happen before the
\* call's promise settles: on silent success no is in the store when the
\* call resolves (or goes on), on the interaction-required failure yes is in
\* the store when the call rejects and was there when login() took over, and
\* the store changes only in a step of a call that had not settled before.
C32_WritesBeforeSettle ==
    [][/\ \A f \in Flows :
            /\ (SilentAnswered(f) /\ Post(f).silent = "ok") => store'.lr = "no"
            /\ (SilentAnswered(f) /\ Post(f).silent \in ExpiryErrors)
                 => IF ~flows[f].force
                    THEN /\ last'.f = f
                         /\ flows[f].conts = <<>> => last'.fl.status = "rejected"
                         /\ store' = [store EXCEPT !.lr = "yes"]
                    ELSE /\ last'.f # f
                         /\ Post(f).nSilent = flows[f].nSilent
                         /\ IF signInMethod = POPUP
                            THEN /\ flows'[f].pc = "awaitPopup"
                                 /\ Post(f).nPopup = flows[f].nPopup + 1
                                 /\ store' = clearStorage(store)
                            ELSE /\ flows'[f].pc = "awaitRedirect"
                                 /\ store' = [store EXCEPT !.lr = "yes"]
       /\ store' # store
            => \E f \in Flows :
                  /\ Moves(f)
                  /\ flows[f].pc # "idle" \/ calls' = calls + 1]_vars

\* (a token call resolved by a silent success that found the flag at yes)
C32_Witness ==
    /\ Resolved("getToken") /\ last.fl.silent = "ok"
    /\ last.pre.lr = "yes" /\ store.lr = "no"

\* (a forced token call handed over to login() after the expiry failure)
C32_WitnessDelegated ==
    \E f \in Flows :
        /\ flows[f].op = "getToken" /\ flows[f].silent \in ExpiryErrors
        /\ flows[f].pc \in {"awaitPopup", "awaitRedirect"}

\* (a token call rejected with the flag at yes)
C32_WitnessRejected ==
    /\ Rejected("getToken") /\ last.fl.silent \in ExpiryErrors
    /\ last.pre.lr = "no" /\ store.lr = "yes"

\* the calls in flight and the one that settled in the latest step
InFlightOrSettled == {flows[f] : f \in Flows} \cup {last.fl}

\* the step is flow f calling acquireTokenSilent again after an earlier
\* acquisition of the same call failed and no login result came in between
SilentReissued(f) ==
    /\ Moves(f)
    /\ flows[f].silent \notin {"none", "ok"}
    /\ Post(f).nSilent = flows[f].nSilent + 1
    /\ Post(f).path = "none"

\* C33: with a provider that answers every request, every getToken() or
\* login() call settles (or the page it ran on is left by the redirect),
\* a call opens the popup or triggers the redirect at most once, and a call
\* whose silent acquisition failed does not issue another one by itself.
C33_NoInternalRetry ==
    /\ \A f \in Flows : (flows[f].pc # "idle") ~> (flows[f].pc = "idle")
    /\ [](\A fl \in InFlightOrSettled : fl.nPopup + fl.nRedir <= 1)
    /\ [][\A f \in Flows : ~SilentReissued(f)]_vars

\* what does hold: every call settles, after at most one interactive login
C33_SettlesWithOneLogin ==
    /\ \A f \in Flows : (flows[f].pc # "idle") ~> (flows[f].pc = "idle")
    /\ [](\A fl \in InFlightOrSettled : fl.nPopup + fl.nRedir <= 1)

\* C34: logins are not serialised. A popup login() started with no
\* resolvable account clears the session and opens the popup whether or not
\* another login is waiting on its own popup, and a login that resolves
\* after its popup leaves its own account as the persisted activeAccountId
\* whatever another login persisted before: the result processed last wins.
C34_NoSingleLoginInFlight ==
    [][\A f \in Flows :
         /\ (Started(f, "login") /\ signInMethod = POPUP /\ ~isUserLoggedIn)
              => /\ store' = clearStorage(store)
                 /\ flows'[f].pc = "awaitPopup"
                 /\ flows'[f].nPopup = 1
         /\ (last'.f = f /\ last'.fl.op = "login" /\ last'.fl.status = "resolved"
               /\ last'.fl.nPopup = 1)
              => store'.acct = last'.fl.value.account]_vars

\* (two logins from an empty store, both waiting on their popups)
C34_Witness ==
    /\ store = EmptyStore /\ calls = 2
    /\ \A f \in Flows : flows[f].op = "login" /\ flows[f].pc = "awaitPopup"

\* (the second of them to finish replaced the account the first had
\* persisted; had it started after the first finished it would have found A
\* trusted and opened no popup)
C34_WitnessLastWins ==
    /\ Resolved("login") /\ last.fl.nPopup = 1 /\ calls = 2
    /\ last.pre = [acct |-> "A", roles |-> NULL, lr |-> "no"]
    /\ msal.accounts = {"A", "B"}
    /\ last.fl.value.account = "B" /\ store.acct = "B"

\* C35: in every reachable state a loginRequired of no comes with a
\* persisted activeAccountId, also when a logout() or a fresh login attempt
\* cleared the session under a getToken() that was waiting on its silent
\* acquisition.
C35_NoFlagWithoutAccount == store.lr = "no" => store.acct # NULL

\* C36: from an empty store, under any interleaving of the calls, a
\* persisted activeAccountId comes with a persisted loginRequired flag: the
\* identifier is never in the store without the flag.
C36_AccountImpliesFlag == store.acct # NULL => store.lr # NULL

\* (a second call ran between a login's result and its selection callback;
\* the callback's account is persisted, the flag with it)
C36_Witness ==
    \E f \in Flows :
        /\ flows[f].pc = "awaitSilent" /\ flows[f].path = "multi"
        /\ store.acct = flows[f].sel /\ store.lr = "no" /\ store.roles = NULL
        /\ calls = 2 /\ \A g \in Flows \ {f} : flows[g].pc = "idle"

\* C37: persisted roles, when present, are the role claims of the login
\* that produced the persisted activeAccountId: when a login that went
\* through the provider resolves, roles in the store are those of its own
\* token result, never those another login left there.
C37_RolesBelongToAccount ==
    (Resolved("login") /\ last.fl.path # "none" /\ store.roles # NULL)
        => (store.acct = last.fl.value.account /\ store.roles = last.fl.value.roles)


\* (the case the claim singles out: B's login carried no roles claim and
\* resolved with A's roles still in the store)
C37_StaleRolesOfOtherAccount ==
    /\ Resolved("login") /\ last.fl.value.account = "B" /\ last.fl.value.roles = NoRoles
    /\ last.pre = [acct |-> "A", roles |-> "r1", lr |-> "no"]
    /\ store = [acct |-> "B", roles |-> "r1", lr |-> "no"]

\* flow f is a call of the facade
ThroughFacade(f) == Post(f).op = "Appoint.getToken"

\* C38: Appoint.getToken reaches Authentication.getToken only when the
\* persisted loginRequired is exactly no. With the flag at yes or absent it
\* rejects with appoint_not_logged_in, for either forceLogin, without a
\* provider call and without touching the store; so a call through the
\* facade enters login() only from a failed silent refresh of its own.
C38_FacadeGate ==
    [][\A f \in Flows :
         /\ (Started(f, "Appoint.getToken") /\ store.lr # "no")
              => /\ last'.f = f /\ last'.fl.status = "rejected"
                 /\ last'.fl.err = <<appointNotLoggedIn>>
                 /\ last'.fl.nGetToken = 0 /\ last'.fl.nSilent = 0
                 /\ NoInteractiveLogin(last'.fl)
                 /\ store' = store /\ msal' = msal /\ redirect' = redirect
         /\ (Started(f, "Appoint.getToken") /\ store.lr = "no")
              => /\ Post(f).nGetToken = 1
                 /\ \/ flows'[f].pc = "awaitSilent" /\ flows'[f].nSilent = 1
                    \/ last'.f = f /\ last'.fl.err = <<getTokenNotLoggedIn>>
         /\ (ThroughFacade(f) /\ Moves(f)
               /\ flows[f].pc \notin {"awaitPopup", "awaitRedirect"}
               /\ flows'[f].pc \in {"awaitPopup", "awaitRedirect"})
              => /\ flows[f].pc = "awaitSilent" /\ flows[f].force
                 /\ Post(f).silent \in ExpiryErrors]_vars

\* (refused with the flag at yes and forceLogin true: a sign-in is waiting
\* on its selection callback)
C38_Witness ==
    /\ Rejected("Appoint.getToken") /\ last.fl.force
    /\ last.fl.err = <<appointNotLoggedIn>>
    /\ last.pre.lr = "yes" /\ store = last.pre

\* (refused with the flag absent)
C38_WitnessAbsent ==
    /\ Rejected("Appoint.getToken") /\ last.fl.err = <<appointNotLoggedIn>>
    /\ last.pre.lr = NULL

\* (let through with the flag at no, and sent to login() by the expiry)
C38_WitnessForced ==
    \E f \in Flows :
        /\ flows[f].op = "Appoint.getToken" /\ flows[f].nGetToken = 1
        /\ flows[f].silent \in ExpiryErrors
        /\ flows[f].pc \in {"awaitPopup", "awaitRedirect"}

\* C39: a batch() of at most 20 requests settles as its authenticated call
\* does: resolved with the parsed body on HTTP 200, rejected with a taxonomy
\* error when the token acquisition or the HTTP call failed, and never
\* resolved without a body.
C39_BatchSettlesAsCall ==
    (Settled("batch") /\ last.fl.n <= BatchLimit)
        => /\ last.fl.status = "resolved"
                => (last.fl.http = 200 /\ last.fl.value = Json)
           /\ last.fl.http # 200
                => (last.fl.status = "rejected" /\ Head(last.fl.err) \in TaxonomyCodes)

\* the half that holds: on HTTP 200 the batch resolves with the parsed body
C39_BatchResolvesOnOk ==
    (Settled("batch") /\ last.fl.http = 200)
        => (last.fl.status = "resolved" /\ last.fl.value = Json)

\* the taxonomy errors with which the token acquisition of a call fails
TokenErrors ==
    {getTokenNotLoggedIn, getTokenAuthenticationRequired, getTokenMissingPermissionScope}

\* C40: when the token acquisition inside get() fails with NotLoggedIn,
\* AuthenticationRequired or MissingPermissionScope, get() rejects with
\* that same taxonomy error (not with UnknownGraphError around it).
C40_GetKeepsTokenError ==
    (Rejected("get") /\ last.fl.nFetch = 0
       /\ \E i \in DOMAIN last.fl.err : last.fl.err[i] \in TokenErrors)
        => (Len(last.fl.err) = 1 /\ Head(last.fl.err) \in TokenErrors)

\* what the code does: the token error is the payload of UnknownGraphError
C40_TokenErrorWrapped ==
    (Settled("get") /\ last.fl.nFetch = 0)
        => (last.fl.status = "rejected" /\ Head(last.fl.err) = getUnknownError
              /\ Len(last.fl.err) >= 2)

====
